---------------------------- MODULE Spec2Model ----------------------------
(***************************************************************************)
(* Westpac-Scholars photo downloaders: download_photos.py (candidate URL   *)
(* generation, retrying session, thread pool) and dns_resolver_download.py *)
(* (DNS strategy ladder, thread pool).                                     *)
(*                                                                         *)
(* Strings are sequences of tokens.  A token is an indivisible piece of    *)
(* text; no token is a concatenation of other tokens, so two token         *)
(* sequences are equal exactly when the Python strings they spell are.     *)
(***************************************************************************)
EXTENDS Integers, Sequences, FiniteSets, TLC

(***************************************************************************)
(* Bounds of the model.                                                    *)
(***************************************************************************)
MaxHashSeed == 24

(***************************************************************************)
(* Generic sequence helpers.                                               *)
(***************************************************************************)
Range(s) == {s[k] : k \in 1..Len(s)}

NoDup(s) == \A a, b \in 1..Len(s) : a # b => s[a] # s[b]

RemoveAt(s, j) == SubSeq(s, 1, j - 1) \o SubSeq(s, j + 1, Len(s))

RECURSIVE FirstSeen(_)
\* the distinct elements of s in the order of their first occurrence
FirstSeen(s) ==
  IF s = <<>> THEN <<>>
  ELSE LET r == FirstSeen(SubSeq(s, 1, Len(s) - 1))
           x == s[Len(s)]
       IN IF x \in Range(r) THEN r ELSE Append(r, x)

RECURSIVE NthPerm(_, _)
\* the k-th arrangement of s (factorial number system); k = 0 keeps s
NthPerm(s, k) ==
  IF Len(s) <= 1 THEN s
  ELSE LET j == (k % Len(s)) + 1
       IN <<s[j]>> \o NthPerm(RemoveAt(s, j), k \div Len(s))

(***************************************************************************)
(* download_photos.py: constants.                                          *)
(***************************************************************************)
SCHEME == "https://"

ALTERNATIVE_BASE_URLS ==
  << <<SCHEME, "scholars.westpac.com.au">>,
     <<SCHEME, "www.westpac.com.au", "/", "about-westpac", "/", "sustainability",
       "/", "initiatives-for-you", "/", "westpac-scholars">>,
     <<SCHEME, "www.westpac.com.au", "/", "content", "/", "dam", "/", "public",
       "/", "wsch", "/", "images">> >>

(***************************************************************************)
(* urllib.parse as download_photos.py uses it.                             *)
(***************************************************************************)
RECURSIVE TakeUntil(_, _)
\* the longest prefix of s holding no token of stops
TakeUntil(s, stops) ==
  IF s = <<>> \/ Head(s) \in stops THEN <<>>
  ELSE <<Head(s)>> \o TakeUntil(Tail(s), stops)

\* urlparse(u): scheme, netloc, path (query and fragment are cut off the path)
UrlParse(u) ==
  LET hasScheme == u # <<>> /\ Head(u) = SCHEME
      rest == IF hasScheme THEN Tail(u) ELSE u
      netloc == IF hasScheme THEN TakeUntil(rest, {"/", "?", "#"}) ELSE <<>>
      after == SubSeq(rest, Len(netloc) + 1, Len(rest))
  IN [scheme |-> IF hasScheme THEN <<SCHEME>> ELSE <<>>,
      netloc |-> netloc,
      path |-> TakeUntil(after, {"?", "#"})]

RECURSIVE SplitSlash(_)
\* str.split('/')
SplitSlash(s) ==
  IF s = <<>> THEN << <<>> >>
  ELSE IF Head(s) = "/" THEN << <<>> >> \o SplitSlash(Tail(s))
  ELSE LET r == SplitSlash(Tail(s))
       IN << <<Head(s)>> \o Head(r) >> \o Tail(r)

RECURSIVE JoinSlash(_)
\* '/'.join(segs)
JoinSlash(segs) ==
  IF segs = <<>> THEN <<>>
  ELSE IF Len(segs) = 1 THEN segs[1]
  ELSE segs[1] \o <<"/">> \o JoinSlash(Tail(segs))

RECURSIVE DropEmpty(_)
\* filter(None, segs)
DropEmpty(segs) ==
  IF segs = <<>> THEN <<>>
  ELSE IF Head(segs) = <<>> THEN DropEmpty(Tail(segs))
  ELSE <<Head(segs)>> \o DropEmpty(Tail(segs))

\* segments[1:-1] = filter(None, segments[1:-1])
FilterMiddle(segs) ==
  IF Len(segs) <= 2 THEN segs
  ELSE <<segs[1]>> \o DropEmpty(SubSeq(segs, 2, Len(segs) - 1)) \o <<segs[Len(segs)]>>

RECURSIVE ResolveDots(_, _)
\* urljoin's removal of '.' and '..' segments; acc is resolved_path so far
ResolveDots(segs, acc) ==
  IF segs = <<>> THEN acc
  ELSE IF Head(segs) = <<"..">>
       THEN ResolveDots(Tail(segs),
                        IF acc = <<>> THEN acc ELSE SubSeq(acc, 1, Len(acc) - 1))
  ELSE IF Head(segs) = <<".">> THEN ResolveDots(Tail(segs), acc)
  ELSE ResolveDots(Tail(segs), Append(acc, Head(segs)))

\* urljoin(base, rel) for a base with scheme and netloc and a rel that is a
\* bare path (no scheme, no netloc, no query): the only way line 80 calls it
UrlJoin(base, rel) ==
  IF rel = <<>> THEN base
  ELSE LET b == UrlParse(base)
           base_parts ==
             LET p == SplitSlash(b.path)
             IN IF p[Len(p)] # <<>> THEN SubSeq(p, 1, Len(p) - 1) ELSE p
           segments == IF Head(rel) = "/" THEN SplitSlash(rel)
                       ELSE FilterMiddle(base_parts \o SplitSlash(rel))
           last == segments[Len(segments)]
           resolved == ResolveDots(segments, <<>>)
                         \o (IF last = <<"..">> \/ last = <<".">> THEN << <<>> >> ELSE <<>>)
           joined == JoinSlash(resolved)
       IN b.scheme \o b.netloc \o (IF joined = <<>> THEN <<"/">> ELSE joined)

(***************************************************************************)
(* download_photos.py: generate_alternative_urls.                          *)
(***************************************************************************)
\* line 76-80: the canonical path re-rooted under one base
Rerooted(u, base_url) ==
  LET path == UrlParse(u).path
      rel == IF path # <<>> /\ Head(path) = "/" THEN Tail(path) ELSE path
  IN UrlJoin(base_url \o <<"/">>, rel)

\* lines 85-90: the three year/id patterns of one base
Patterns(base_url, sid, yr) ==
  << base_url \o <<"/">> \o yr \o <<"/", "wsch", "_", "scholarhs", "_">> \o sid
       \o <<"_", "480x480", ".jpg">>,
     base_url \o <<"/", "scholars", "_">> \o yr \o <<"/", "profile", "_">> \o sid
       \o <<".jpg">>,
     base_url \o <<"/", "scholars", "/", "profile", "_">> \o yr \o <<"_">> \o sid
       \o <<".jpg">> >>

\* lines 69-90: the list `alternatives` as it stands before line 92
AlternativesList(u, sid, yr) ==
  LET nb == Len(ALTERNATIVE_BASE_URLS)
      rerooted == [k \in 1..nb |-> Rerooted(u, ALTERNATIVE_BASE_URLS[k])]
      pats == IF yr # <<>> /\ sid # <<>>
              THEN [k \in 1..(3 * nb) |->
                      Patterns(ALTERNATIVE_BASE_URLS[((k - 1) \div 3) + 1], sid, yr)
                        [((k - 1) % 3) + 1]]
              ELSE <<>>
  IN <<u>> \o rerooted \o pats

\* a buggy variant of line 92 that keeps duplicates
ListOfSetKeepingDuplicates(seed, lst) == NthPerm(lst, seed)

\* line 92, list(set(alternatives)): the distinct strings in hash-table
\* order.  String hashes are salted per process, so the order is some
\* arrangement fixed by the process's hash seed.
ListOfSet(seed, lst) == NthPerm(FirstSeen(lst), seed)

\* generate_alternative_urls(url, scholar_id, year) under a given hash seed
GenerateAlternativeUrls(seed, u, sid, yr) ==
  IF u = <<>> THEN <<>> ELSE ListOfSet(seed, AlternativesList(u, sid, yr))

(***************************************************************************)
(* Inputs of the candidate generator.                                      *)
(***************************************************************************)
ORIGIN == <<SCHEME, "origin.example">>

GenUrls ==
  { <<>>,
    ORIGIN \o <<"/", "a", "/", "b", ".jpg">>,
    ORIGIN,
    ORIGIN \o <<"/", "/", "b", ".jpg">>,
    ORIGIN \o <<"/", "b", ".jpg", "?", "v">>,
    ORIGIN \o <<"/", "a", "/", "..", "/", "b", ".jpg">>,
    ALTERNATIVE_BASE_URLS[1] \o <<"/", "b", ".jpg">>,
    ALTERNATIVE_BASE_URLS[1] \o <<"/", "2022", "/", "wsch", "_", "scholarhs", "_", "42",
                                   "_", "480x480", ".jpg">> }

GenIds == { <<>>, <<"42">> }

GenYears == { <<>>, <<"2022">> }

VARIABLES gpc, hashseed, url, scholar_id, year, alternatives, urls_to_try

gvars == <<gpc, hashseed, url, scholar_id, year, alternatives, urls_to_try>>

(***************************************************************************)
(* One fetch of one URL: session.get with the retrying adapter, then the   *)
(* checks and the body transfer (download_image lines 134-149), or         *)
(* download_with_custom_dns for one strategy.                              *)
(***************************************************************************)
MAX_RETRIES == 3

STATUS_FORCELIST == {429, 500, 502, 503, 504}

IMAGE_JPEG == <<"image/", "jpeg">>

TEXT_HTML == <<"text/", "html">>

Http(status, ctype) == [kind |-> "http", status |-> status, ctype |-> ctype]

TransportError(kind) == [kind |-> kind, status |-> 0, ctype |-> <<>>]

\* what the network can answer to one request
Answers ==
  {Http(200, IMAGE_JPEG), Http(200, TEXT_HTML), Http(200, <<>>), Http(204, <<>>),
   Http(203, IMAGE_JPEG)}
    \cup {Http(st, TEXT_HTML) : st \in {404} \cup STATUS_FORCELIST}
    \cup {TransportError(k) : k \in {"timeout", "reset", "dnsfail"}}

\* content_type.startswith('image/')
IsImageType(ctype) == ctype # <<>> /\ Head(ctype) = "image/"

\* a retry budget one short of the configured one
RetryTotalOneShort(variant) == IF variant = "photos" THEN MAX_RETRIES - 1 ELSE 0

\* Retry(total=MAX_RETRIES) mounted by create_session; requests.get in
\* download_with_custom_dns uses the default adapter, which never retries
RetryTotal(variant) == IF variant = "photos" THEN MAX_RETRIES ELSE 0

\* urllib3's Retry as configured on lines 53-58: a status of the forcelist
\* on a GET, and every connection-level error (connect, read, other: none of
\* the per-kind counters is set, so only `total` limits them)
AdapterRetries(variant, ans) ==
  /\ variant = "photos"
  /\ \/ ans.kind # "http"
     \/ ans.status \in STATUS_FORCELIST

\* response.raise_for_status() (photos) / status_code != 200 (dns)
StatusAccepted(variant, status) ==
  IF variant = "photos" THEN status < 400 ELSE status = 200

\* dns_resolver_download.py lines 37-43: the names of the ladder, in order
DNS_SERVERS == <<"Google DNS", "Cloudflare DNS", "OpenDNS", "Quad9", "Default DNS">>

\* the second component of a DNS_SERVERS entry: a server list, or None for
\* the last entry
DnsServersGiven(dns_name) == dns_name # "Default DNS"

\* host names by how they resolve: one with an A record, one without, and
\* one that is no valid name (an empty or over-long label)
Domains == {"resolvable", "unknown", "badlabel"}

\* what the resolver library does: dns.resolver.Resolver.resolve (line 68)
\* answers or raises one of its exceptions; socket.gethostbyname (line 77)
\* answers, raises socket.gaierror, or raises UnicodeError when the idna
\* encoding of the name fails
ResolverOutcomes(dns_name, domain) ==
  IF DnsServersGiven(dns_name)
  THEN IF domain = "resolvable" THEN {"ip", "dns_exception"} ELSE {"dns_exception"}
  ELSE CASE domain = "resolvable" -> {"ip", "gaierror"}
         [] domain = "unknown" -> {"gaierror"}
         [] OTHER -> {"unicode_error"}

\* resolve_domain_with_dns lines 61-81 on the library's outcome: the branch
\* for a server list catches Exception, the other one only socket.gaierror
ResolveDomainWithDns(dns_name, raw) ==
  IF raw = "ip" THEN "ip"
  ELSE IF DnsServersGiven(dns_name) \/ raw = "gaierror" THEN "failed"
  ELSE "raised"

\* the address a successful resolution returns
IP_ADDRESS == <<"203.0.113.7">>

RECURSIVE StrReplace(_, _, _)
\* s.replace(old, new) for a non-empty old: every occurrence, left to right
StrReplace(s, old, new) ==
  IF Len(s) < Len(old) THEN s
  ELSE IF SubSeq(s, 1, Len(old)) = old
       THEN new \o StrReplace(SubSeq(s, Len(old) + 1, Len(s)), old, new)
  ELSE <<Head(s)>> \o StrReplace(Tail(s), old, new)

\* download_with_custom_dns line 112: ip_url = url.replace(domain, ip_address)
IpUrl(u, ip_address) == StrReplace(u, UrlParse(u).netloc, ip_address)

\* the URLs a fetch is made for: a plain one, one with a port, and two in
\* which the host name comes again in the path or in the query
FetchUrls ==
  { ORIGIN \o <<"/", "a", "/", "b", ".jpg">>,
    ORIGIN \o <<":", "8080", "/", "a", "/", "b", ".jpg">>,
    ORIGIN \o <<"/", "img", "/", "origin.example", "/", "b", ".jpg">>,
    ORIGIN \o <<"/", "b", ".jpg", "?", "src=", "origin.example">> }

VARIABLES fpc, fvariant, total, answers, resolved, body, fresult, fstrategy, fdomain,
          pinned, furl, request_url, host_header

fvars == <<fpc, fvariant, total, answers, resolved, body, fresult, fstrategy, fdomain,
           pinned, furl, request_url, host_header>>

(***************************************************************************)
(* A run of main(): the records of the input CSV, the output directory,    *)
(* the thread pool and the collection loop.                                *)
(***************************************************************************)
NumRecords == 2

MaxPool == 2

MaxRunSeed == 2

\* a row of the CSV as df.iterrows() yields it.  url_is_str is FALSE for an
\* empty cell, which pandas reads as the float NaN.
Row(id, name, image_url, url_is_str, yr) ==
  [id |-> id, name |-> name, image_url |-> image_url, url_is_str |-> url_is_str,
   year |-> yr]

RecordPool ==
  { Row(<<"42">>, <<"Jane", " ", "Doe">>, ORIGIN \o <<"/", "a", "/", "b", ".jpg">>,
        TRUE, <<>>),
    Row(<<"43">>, <<"A", ".", " ", "Lee">>, ALTERNATIVE_BASE_URLS[1] \o <<"/", "b", ".jpg">>,
        TRUE, <<>>),
    Row(<<"7">>, <<"O", "'", "Hara">>, <<>>, TRUE, <<>>),
    Row(<<"8">>, <<"Wu", ",", " ", "Li">>, <<>>, FALSE, <<>>) }

\* the year column of the CSV: absent (row.get('year', '') gives ''), or
\* filled in every row, as comprehensive_scraper.py line 112 writes it
YearColumn == {<<>>, <<"2022">>}

RECURSIVE MapTokens(_, _, _)
\* s with the tokens of `drop` removed and every " " replaced by "_"
MapTokens(s, drop, under) ==
  IF s = <<>> THEN <<>>
  ELSE (IF Head(s) \in drop THEN <<>>
        ELSE IF Head(s) \in under THEN <<"_">>
        ELSE <<Head(s)>>) \o MapTokens(Tail(s), drop, under)

\* download_photos.py line 106: re.sub(r'[^\w\s-]', '', name).replace(' ', '_')
NameCleanPhotos(name) == MapTokens(name, {".", ",", "'"}, {" "})

\* dns_resolver_download.py line 166
NameCleanDns(name) == MapTokens(name, {".", ","}, {" "})

\* download_photos.py lines 107-113: os.path.splitext of the URL path
FileExtension(u) ==
  LET path == UrlParse(u).path
  IN IF path # <<>> /\ path[Len(path)] \in {".jpg", ".png"}
     THEN <<path[Len(path)]>> ELSE <<".jpg">>

\* lines 115-116 (photos) and 167-168 (dns): the final artifact path
FilePath(variant, r) ==
  IF variant = "photos"
  THEN <<"scholar_photos", "/">> \o r.id \o <<"_">> \o NameCleanPhotos(r.name)
         \o FileExtension(r.image_url)
  ELSE <<"scholar_photos_dns", "/">> \o r.id \o <<"_">> \o NameCleanDns(r.name)
         \o <<".jpg">>

\* line 101 (photos): not url or not isinstance(url, str) or url.strip() == ''
NoImageUrl(r) == ~r.url_is_str \/ r.image_url = <<>>

VARIABLES variant, records, candidates, max_workers, fs, task, mpc, next, results,
          image_map

rvars == <<variant, records, candidates, max_workers, fs, task, mpc, next, results,
           image_map>>

(***************************************************************************)
(* The final artifact paths of two records of one input file.              *)
(***************************************************************************)

\* ids as the input file may hold them: scholar.get('uniqueId', '') is
\* written as it comes (comprehensive_scraper.py line 109)
PathIds == { <<"1">>, <<"1", "_", "2">>, <<"42">>, <<"7">> }

PathNames == { <<"Bob">>, <<"2", " ", "Bob">>, <<"Jane", " ", "Doe">> }

PathUrls == { ORIGIN \o <<"/", "a", "/", "b", ".jpg">>, ORIGIN \o <<"/", "c", ".png">> }

PathRows ==
  { Row(id, name, u, TRUE, <<>>) : id \in PathIds, name \in PathNames, u \in PathUrls }

VARIABLES ppc, pvariant, prows, ppaths

pvars == <<ppc, pvariant, prows, ppaths>>

(***************************************************************************)
(* check_url of check_website_status.py: one probe of one URL.             *)
(***************************************************************************)

\* check_website_status.py line 35
CHECK_MAX_RETRIES == 2

\* what the network can answer to one request of the probe; session.head
\* does not follow redirects, session.get does and can end in a redirect loop
CheckAnswers(method) ==
  {Http(200, IMAGE_JPEG), Http(200, <<>>), Http(404, TEXT_HTML), Http(405, <<>>),
   Http(503, TEXT_HTML), TransportError("timeout"), TransportError("reset")}
    \cup (IF method = "HEAD" THEN {Http(301, TEXT_HTML)}
          ELSE {TransportError("redirects")})

\* Retry(total=MAX_RETRIES, status_forcelist=..., allowed_methods=["GET",
\* "HEAD"]) of lines 49-54: a status of the forcelist and every
\* connection-level error are counted against total
CheckRetries(a) ==
  \/ a.kind \in {"timeout", "reset"}
  \/ a.kind = "http" /\ a.status \in STATUS_FORCELIST

\* a GET for every HEAD status that is no success
NeedsGetOnRedirect(status) == status >= 300

\* line 70: if status_code >= 400
NeedsGet(status) == status >= 400

NoCheckResult ==
  [status_code |-> <<>>, content_type |-> <<>>, accessible |-> FALSE, error |-> <<>>]

\* lines 77-83: the dict returned for a response; None is the empty sequence
ResponseResult(a) ==
  [status_code |-> <<a.status>>,
   content_type |-> IF a.ctype = <<>> THEN <<"Unknown">> ELSE a.ctype,
   accessible |-> (200 <= a.status /\ a.status < 400),
   error |-> <<>>]

\* lines 84-91: the dict returned for a RequestException
ExceptionResult(a) ==
  [status_code |-> <<>>, content_type |-> <<>>, accessible |-> FALSE,
   error |-> <<IF a.kind = "http" THEN "too many error responses" ELSE a.kind>>]

VARIABLES cpc, ctotal, sent, cresult

cvars == <<cpc, ctotal, sent, cresult>>

vars == <<gvars, fvars, rvars, pvars, cvars>>

PathIdle == ppc = "idle" /\ pvariant = "none" /\ prows = <<>> /\ ppaths = <<>>

CheckIdle == cpc = "idle" /\ ctotal = 0 /\ sent = <<>> /\ cresult = NoCheckResult

RunIdle ==
  /\ variant = "none" /\ records = <<>> /\ candidates = <<>> /\ max_workers = 0
  /\ fs = <<>> /\ task = <<>> /\ mpc = "idle" /\ next = 0
  /\ results = <<>> /\ image_map = {}

GenIdle ==
  /\ gpc = "idle" /\ hashseed = 0 /\ url = <<>> /\ scholar_id = <<>> /\ year = <<>>
  /\ alternatives = <<>> /\ urls_to_try = <<>>

FetchIdle ==
  /\ fpc = "idle" /\ fvariant = "photos" /\ total = 0 /\ answers = <<>>
  /\ resolved = "none" /\ body = "none" /\ fresult = "none"
  /\ fstrategy = "none" /\ fdomain = "none" /\ pinned = FALSE
  /\ furl = <<>> /\ request_url = <<>> /\ host_header = <<>>

GenInit ==
  /\ gpc = "call"
  /\ hashseed \in 0..(MaxHashSeed - 1)
  /\ url \in GenUrls
  /\ scholar_id \in GenIds
  /\ year \in GenYears
  /\ alternatives = <<>>
  /\ urls_to_try = <<>>
  /\ FetchIdle
  /\ RunIdle
  /\ PathIdle
  /\ CheckIdle

\* one call of generate_alternative_urls
GenCall ==
  /\ gpc = "call"
  /\ alternatives' = IF url = <<>> THEN <<>> ELSE AlternativesList(url, scholar_id, year)
  /\ urls_to_try' = GenerateAlternativeUrls(hashseed, url, scholar_id, year)
  /\ gpc' = "done"
  /\ UNCHANGED <<hashseed, url, scholar_id, year>>
  /\ UNCHANGED <<fvars, rvars, pvars, cvars>>

GenNext == GenCall

SpecGen == GenInit /\ [][GenNext]_vars

(***************************************************************************)
(* C1: for a non-empty canonical URL, the first element of the list        *)
(* returned by generate_alternative_urls is that canonical URL.            *)
(***************************************************************************)
C1_FirstIsCanonical ==
  (gpc = "done" /\ url # <<>>) => (urls_to_try # <<>> /\ Head(urls_to_try) = url)

(***************************************************************************)
(* C2: the list returned by generate_alternative_urls holds no string      *)
(* twice.                                                                  *)
(***************************************************************************)
C2_NoDuplicates == gpc = "done" => NoDup(urls_to_try)

\* a call whose list had duplicates before line 92: a re-rooted URL equal to
\* the canonical one and a pattern URL equal to both
C2_Witness ==
  /\ gpc = "done"
  /\ \E a, b, c \in 1..Len(alternatives) :
       /\ a = 1 /\ 1 < b /\ b <= 4 /\ c > 4
       /\ alternatives[b] = alternatives[a]
       /\ alternatives[c] = alternatives[a]
  /\ Len(urls_to_try) < Len(alternatives)

(***************************************************************************)
(* C3: the returned list is the first-seen-order deduplication of          *)
(* canonical URL, re-rooted URLs in base order, pattern URLs in base order.*)
(***************************************************************************)
C3_FirstSeenOrder ==
  gpc = "done" =>
    urls_to_try = (IF url = <<>> THEN <<>>
                   ELSE FirstSeen(AlternativesList(url, scholar_id, year)))

(***************************************************************************)
(* The fetch of one URL, request by request.                               *)
(***************************************************************************)
FetchInit ==
  /\ GenIdle
  /\ RunIdle
  /\ PathIdle
  /\ CheckIdle
  /\ fvariant \in {"photos", "dns"}
  /\ fpc = IF fvariant = "dns" THEN "resolve" ELSE "request"
  /\ total = RetryTotal(fvariant)
  /\ answers = <<>>
  /\ resolved = "none"
  /\ body = "none"
  /\ fresult = "none"
  /\ fstrategy \in (IF fvariant = "dns" THEN Range(DNS_SERVERS) ELSE {"none"})
  /\ fdomain \in (IF fvariant = "dns" THEN Domains ELSE {"resolvable", "unknown"})
  /\ pinned = FALSE
  /\ furl \in (IF fvariant = "dns" THEN FetchUrls ELSE {ORIGIN \o <<"/", "a", "/", "b", ".jpg">>})
  /\ request_url = (IF fvariant = "dns" THEN <<>> ELSE furl)
  /\ host_header = <<>>

\* download_with_custom_dns lines 98-113: resolve before any request; with
\* an address the request goes to ip_url with the Host header set, without
\* one the function returns False (lines 104-106, or 137-139 when
\* resolve_domain_with_dns raised)
FetchResolve ==
  /\ fpc = "resolve"
  /\ \E raw \in ResolverOutcomes(fstrategy, fdomain) :
       LET r == ResolveDomainWithDns(fstrategy, raw)
       IN /\ resolved' = r
          /\ pinned' = (r = "ip")
          /\ request_url' = IF r = "ip" THEN IpUrl(furl, IP_ADDRESS) ELSE request_url
          /\ host_header' = IF r = "ip" THEN UrlParse(furl).netloc ELSE host_header
          /\ fpc' = IF r = "ip" THEN "request" ELSE "done"
          /\ fresult' = IF r = "ip" THEN fresult ELSE "failure"
  /\ UNCHANGED <<fvariant, total, answers, body, fstrategy, fdomain, furl>>
  /\ UNCHANGED <<gvars, rvars, pvars, cvars>>

\* one request on the wire and what the adapter and the caller make of the
\* answer: retry, give up, reject, or go on to the body
FetchSend ==
  /\ fpc = "request"
  /\ \E a \in Answers :
       /\ fvariant = "dns" => a.kind # "dnsfail"   \* the URL holds an IP address
       /\ (fvariant = "photos" /\ fdomain # "resolvable") => a.kind = "dnsfail"
       /\ answers' = Append(answers, a)
       /\ IF AdapterRetries(fvariant, a)
          THEN IF total > 0
               THEN /\ total' = total - 1
                    /\ UNCHANGED <<fpc, fresult>>
               ELSE /\ fpc' = "done"
                    /\ fresult' = "failure"
                    /\ UNCHANGED total
          ELSE /\ UNCHANGED total
               /\ IF /\ a.kind = "http"
                     /\ StatusAccepted(fvariant, a.status)
                     /\ IsImageType(a.ctype)
                  THEN fpc' = "body" /\ UNCHANGED fresult
                  ELSE fpc' = "done" /\ fresult' = "failure"
  /\ UNCHANGED <<fvariant, resolved, body, fstrategy, fdomain, pinned, furl, request_url,
                 host_header>>
  /\ UNCHANGED <<gvars, rvars, pvars, cvars>>

\* lines 144-146 / 129-132: the body is streamed into the file
FetchBody ==
  /\ fpc = "body"
  /\ \E b \in {"complete", "broken", "oserror"} :
       /\ body' = b
       /\ fresult' = IF b = "complete" THEN "success"
                     ELSE IF b = "oserror" /\ fvariant = "photos" THEN "raised"
                     ELSE "failure"
  /\ fpc' = "done"
  /\ UNCHANGED <<fvariant, total, answers, resolved, fstrategy, fdomain, pinned, furl,
                 request_url, host_header>>
  /\ UNCHANGED <<gvars, rvars, pvars, cvars>>

FetchNext == FetchResolve \/ FetchSend \/ FetchBody

SpecFetch == FetchInit /\ [][FetchNext]_vars

\* the retry budget the fetch was configured with: MAX_RETRIES for the
\* session of create_session, none for a plain requests.get
ConfiguredBudget == IF fvariant = "photos" THEN MAX_RETRIES ELSE 0

RetriesConsumed == ConfiguredBudget - total

RetryableStatus(a) == a.kind = "http" /\ a.status \in STATUS_FORCELIST

GoodAnswer(a) == a.kind = "http" /\ a.status = 200 /\ IsImageType(a.ctype)

(***************************************************************************)
(* C9: with retry budget max_retries, a fetch whose first max_retries      *)
(* answers are retryable statuses and whose next answer is good succeeds   *)
(* with exactly max_retries retries consumed; a fetch that would need one  *)
(* more retry fails.  Stated on the answers received: the fetch never      *)
(* gives up on a retryable status before request max_retries + 1, gives up *)
(* at that request, and a good answer after k retryable ones is a success  *)
(* with k retries consumed.                                                *)
(***************************************************************************)
C9_RetryBoundary ==
  LET n == Len(answers)
      b == ConfiguredBudget
      allRetryable(m) == \A k \in 1..m : RetryableStatus(answers[k])
  IN /\ n <= b + 1
     /\ (fpc = "done" /\ n > 0 /\ allRetryable(n)) =>
          (fresult = "failure" /\ n = b + 1 /\ RetriesConsumed = b)
     /\ (fpc = "done" /\ n > 0 /\ allRetryable(n - 1) /\ GoodAnswer(answers[n])
           /\ body = "complete") =>
          (fresult = "success" /\ RetriesConsumed = n - 1)
     /\ (fpc = "request" /\ allRetryable(n)) => RetriesConsumed = n

\* 503 on the first MAX_RETRIES requests, then a good answer on the last
\* allowed request
C9_Witness ==
  /\ fpc = "done"
  /\ fvariant = "photos"
  /\ Len(answers) = MAX_RETRIES + 1
  /\ \A k \in 1..MAX_RETRIES : answers[k] = Http(503, TEXT_HTML)
  /\ answers[MAX_RETRIES + 1] = Http(200, IMAGE_JPEG)
  /\ fresult = "success"
  /\ RetriesConsumed = MAX_RETRIES

(***************************************************************************)
(* C10: a 4xx other than 429, a bad content type or a DNS resolution       *)
(* failure ends the attempts on the URL at once; only 429, 500, 502, 503,  *)
(* 504, timeouts and connection resets are followed by a retry.            *)
(***************************************************************************)
C10_OnlyRetryableCausesRetried ==
  \A k \in 1..Len(answers) :
    k < Len(answers) =>
      \/ RetryableStatus(answers[k])
      \/ answers[k].kind \in {"timeout", "reset"}

\* the answer passed the status and content-type checks of the fetch
Validated == fpc = "body" \/ body # "none"

(***************************************************************************)
(* C13: a fetch attempt passes validation if and only if the final HTTP    *)
(* status is in 200..399 and the content type begins with "image/".        *)
(***************************************************************************)
C13_SuccessIffStatusAndType ==
  (answers # <<>> /\ fpc \in {"body", "done"}) =>
    LET a == answers[Len(answers)]
    IN Validated <=>
         (a.kind = "http" /\ a.status \in 200..399 /\ IsImageType(a.ctype))

(***************************************************************************)
(* C14: resolve_domain_with_dns returns an address or a failure value for  *)
(* every host name and every strategy; it never raises to its caller.      *)
(***************************************************************************)
C14_ResolverNeverRaises == resolved # "raised"

(***************************************************************************)
(* C19: under the Default strategy the request goes to the original URL,   *)
(* not pinned to an address and without a Host header override, and the    *)
(* attempt is not ended without a request by a failed pre-resolution.      *)
(***************************************************************************)
C19_DefaultUnpinnedNotSkipped ==
  (fvariant = "dns" /\ fstrategy = "Default DNS") =>
    /\ ~pinned
    /\ ~(fpc = "done" /\ answers = <<>>)

\* u with only the host name of its netloc exchanged for the address
HostExchanged(u, ip_address) ==
  LET netloc == UrlParse(u).netloc
  IN <<SCHEME>> \o ip_address \o Tail(netloc)
       \o SubSeq(u, Len(netloc) + 2, Len(u))

(***************************************************************************)
(* C25: a pinned request goes to the original URL with only the host       *)
(* exchanged for the address (scheme, port, path and query untouched), and *)
(* its Host header is the original URL's host.                             *)
(***************************************************************************)
C25_PinnedUrlDiffersInHostOnly ==
  pinned =>
    /\ request_url = HostExchanged(furl, IP_ADDRESS)
    /\ host_header = UrlParse(furl).netloc

(***************************************************************************)
(* Two records with distinct ids, and the paths the two programs give them *)
(***************************************************************************)
PathInit ==
  /\ GenIdle
  /\ FetchIdle
  /\ RunIdle
  /\ CheckIdle
  /\ ppc = "call"
  /\ pvariant \in {"photos", "dns"}
  /\ prows \in {q \in [1..2 -> PathRows] : q[1].id # q[2].id}
  /\ ppaths = <<>>

\* filepath of download_image / process_scholar for each of the two rows
PathCall ==
  /\ ppc = "call"
  /\ ppaths' = [i \in 1..2 |-> FilePath(pvariant, prows[i])]
  /\ ppc' = "done"
  /\ UNCHANGED <<pvariant, prows>>
  /\ UNCHANGED <<gvars, fvars, rvars, cvars>>

PathNext == PathCall

SpecPath == PathInit /\ [][PathNext]_vars

(***************************************************************************)
(* C22: records with distinct ids get distinct final artifact paths,       *)
(* whatever their names are.                                               *)
(***************************************************************************)
C22_DistinctIdsDistinctPaths ==
  ppc = "done" => ppaths[1] # ppaths[2]

(***************************************************************************)
(* check_url                                                               *)
(***************************************************************************)
CheckInit ==
  /\ GenIdle
  /\ FetchIdle
  /\ RunIdle
  /\ PathIdle
  /\ cpc = "head"
  /\ ctotal = CHECK_MAX_RETRIES
  /\ sent = <<>>
  /\ cresult = NoCheckResult

\* line 65: session.head(url, timeout=TIMEOUT), one request on the wire
CheckHead ==
  /\ cpc = "head"
  /\ \E a \in CheckAnswers("HEAD") :
       /\ sent' = Append(sent, [method |-> "HEAD", answer |-> a])
       /\ IF CheckRetries(a) /\ ctotal > 0
          THEN /\ ctotal' = ctotal - 1
               /\ UNCHANGED <<cpc, cresult>>
          ELSE IF a.kind # "http" \/ CheckRetries(a)
          THEN /\ cresult' = ExceptionResult(a)
               /\ cpc' = "done"
               /\ UNCHANGED ctotal
          ELSE IF NeedsGet(a.status)
          THEN /\ cpc' = "get"
               /\ ctotal' = CHECK_MAX_RETRIES
               /\ UNCHANGED cresult
          ELSE /\ cresult' = ResponseResult(a)
               /\ cpc' = "done"
               /\ UNCHANGED ctotal
  /\ UNCHANGED <<gvars, fvars, rvars, pvars>>

\* line 71: session.get(url, timeout=TIMEOUT, stream=True), one request on
\* the wire; the body is not read (line 75)
CheckGet ==
  /\ cpc = "get"
  /\ \E a \in CheckAnswers("GET") :
       /\ sent' = Append(sent, [method |-> "GET", answer |-> a])
       /\ IF CheckRetries(a) /\ ctotal > 0
          THEN /\ ctotal' = ctotal - 1
               /\ UNCHANGED <<cpc, cresult>>
          ELSE /\ cresult' = IF a.kind # "http" \/ CheckRetries(a)
                             THEN ExceptionResult(a) ELSE ResponseResult(a)
               /\ cpc' = "done"
               /\ UNCHANGED ctotal
  /\ UNCHANGED <<gvars, fvars, rvars, pvars>>

CheckNext == CheckHead \/ CheckGet

SpecCheck == CheckInit /\ [][CheckNext]_vars

\* the answer that ended the probe came back to check_url as a response:
\* the session raises for a transport error and for a status of the
\* forcelist that outlasted the retries
LastAnswer == sent[Len(sent)].answer

ResponseReceived == LastAnswer.kind = "http" /\ LastAnswer.status \notin STATUS_FORCELIST

Rec(i) == records[i]

Path(i) == FilePath(variant, Rec(i))

\* line 124: urls_to_try of record i in this process
\* It is a function of the row and of the process's hash seed only, and is
\* kept in candidates from the start of the run.
Urls(i) == candidates[i]

\* generate_alternative_urls(url, scholar_id, year) for row r
UrlsOf(seed, r) == GenerateAlternativeUrls(seed, r.image_url, r.id, r.year)

\* a submitted future that no worker has picked up yet.  netcall, vfail,
\* rereq, existed and attempts are history: whether a resolution or request
\* was issued, the URLs that answered 200 with a non-image type, whether such
\* a URL was requested again, whether the artifact existed when the worker
\* started, the (URL, strategy) pairs attempted so far.
QueuedTask ==
  [pc |-> "queued", idx |-> 0, val |-> "pending", netcall |-> FALSE, vfail |-> {},
   rereq |-> FALSE, existed |-> FALSE, attempts |-> <<>>]

\* session.get(current_url) of download_image names no resolver: the host is
\* resolved by the runtime when the connection is made
RUNTIME_RESOLUTION == "Default DNS"

Finish(t, v) == [t EXCEPT !.pc = "returned", !.val = v, !.idx = 0, !.vfail = {}]

Raise(t) == [t EXCEPT !.pc = "raised", !.idx = 0, !.vfail = {}]

InFlight == Cardinality({i \in DOMAIN task : task[i].pc \in {"get", "body"}})

\* a pool that starts every submitted task at once
WorkerAvailableUnbounded == TRUE

\* ThreadPoolExecutor(max_workers=MAX_WORKERS): a task starts only on a free worker
WorkerAvailable == InFlight < max_workers

\* a future that counts as done only when its worker returned
FinishedOnlyOnReturn(i) == task[i].pc = "returned"

\* future.result() returns or re-raises once the worker has ended either way
Finished(i) == task[i].pc \in {"returned", "raised"}

RunInit ==
  /\ gpc = "idle" /\ url = <<>> /\ scholar_id = <<>> /\ year = <<>>
  /\ alternatives = <<>> /\ urls_to_try = <<>>
  /\ FetchIdle
  /\ PathIdle
  /\ CheckIdle
  /\ variant \in {"photos", "dns"}
  /\ hashseed \in (IF variant = "photos" THEN 0..(MaxRunSeed - 1) ELSE {0})
  /\ \E rs \in {q \in [1..NumRecords -> RecordPool] :
                  \A a, b \in 1..NumRecords : a # b => q[a] # q[b]},
        y \in YearColumn :
       records = [k \in 1..NumRecords |-> [rs[k] EXCEPT !.year = y]]
  /\ candidates = [i \in 1..NumRecords |-> UrlsOf(hashseed, records[i])]
  /\ max_workers \in 1..MaxPool
  /\ fs \in [{FilePath(variant, records[i]) : i \in 1..NumRecords} -> {"none", "full"}]
  /\ task = [i \in 1..NumRecords |-> QueuedTask]
  /\ mpc = "collect"
  /\ next = 1
  /\ results = <<>>
  /\ image_map = {}

\* a worker takes the oldest queued task and runs it up to its first network
\* operation: download_image lines 96-127, process_scholar lines 152-180
StartTask(i) ==
  /\ task[i].pc = "queued"
  /\ \A k \in 1..(i - 1) : task[k].pc # "queued"
  /\ WorkerAvailable
  /\ LET r == Rec(i)
         existed == fs[Path(i)] # "none"
         t == [task[i] EXCEPT !.existed = existed]
         loop == [t EXCEPT !.pc = "get", !.idx = 1]
     IN task' = [task EXCEPT ![i] =
          IF variant = "photos"
          THEN IF NoImageUrl(r) THEN Finish(t, "None")
               ELSE IF existed THEN Finish(t, "filepath")
               ELSE IF Urls(i) = <<>> THEN Finish(t, "None")
               ELSE loop
          ELSE IF ~r.url_is_str THEN Raise(t)      \* line 156: NaN has no strip()
               ELSE IF r.image_url = <<>> THEN Finish(t, "None")
               ELSE IF existed THEN Finish(t, "Already downloaded")
               ELSE loop]
  /\ UNCHANGED <<variant, records, candidates, max_workers, fs, mpc, next, results, image_map>>
  /\ UNCHANGED <<gvars, fvars, pvars, cvars>>

\* download_image line 130: the next URL, or line 155-156 after the last.
\* Of the history vfail only the URLs still to come are kept: no other URL
\* can be requested again.
NextUrl(t, i) ==
  IF t.idx < Len(Urls(i))
  THEN [t EXCEPT !.idx = t.idx + 1,
                 !.vfail = @ \cap Range(SubSeq(Urls(i), t.idx + 1, Len(Urls(i))))]
  ELSE Finish(t, "None")

\* a ladder that leaves out every second strategy
NextStrategySkippingOne(t) ==
  IF t.idx + 1 < Len(DNS_SERVERS) THEN [t EXCEPT !.idx = t.idx + 2] ELSE Finish(t, "None")

\* process_scholar line 181: the next strategy, or lines 194-200 after the last
NextStrategy(t) ==
  IF t.idx < Len(DNS_SERVERS) THEN [t EXCEPT !.idx = t.idx + 1] ELSE Finish(t, "None")

\* download_image lines 131-144 and 151-153 for urls_to_try[idx]: the
\* retried GET, the status and content-type checks, open(filepath, 'wb')
PhotosGet(i) ==
  /\ variant = "photos"
  /\ task[i].pc = "get"
  /\ LET u == Urls(i)[task[i].idx]
         t == [task[i] EXCEPT !.netcall = TRUE, !.rereq = @ \/ u \in task[i].vfail,
                              !.attempts = Append(@, <<u, RUNTIME_RESOLUTION>>)]
     IN \E outcome \in {"image", "notimage", "failed", "image_open_fails"} :
          /\ task' = [task EXCEPT ![i] =
               CASE outcome = "image" -> [t EXCEPT !.pc = "body"]
                 [] outcome = "image_open_fails" -> Raise(t)
                 [] outcome = "notimage" -> NextUrl([t EXCEPT !.vfail = @ \cup {u}], i)
                 [] OTHER -> NextUrl(t, i)]
          /\ fs' = IF outcome = "image" THEN [fs EXCEPT ![Path(i)] = "partial"] ELSE fs
  /\ UNCHANGED <<variant, records, candidates, max_workers, mpc, next, results, image_map>>
  /\ UNCHANGED <<gvars, fvars, pvars, cvars>>

\* a loop that goes on to the next URL after a complete download
PhotosBodyTryingOn(i) ==
  /\ variant = "photos"
  /\ task[i].pc = "body"
  /\ \E b \in {"complete", "broken", "oserror"} :
       /\ task' = [task EXCEPT ![i] =
            CASE b = "complete" -> NextUrl([task[i] EXCEPT !.pc = "get"], i)
              [] b = "broken" -> NextUrl([task[i] EXCEPT !.pc = "get"], i)
              [] OTHER -> Raise(task[i])]
       /\ fs' = IF b = "complete" THEN [fs EXCEPT ![Path(i)] = "full"] ELSE fs
  /\ UNCHANGED <<variant, records, candidates, max_workers, mpc, next, results, image_map>>
  /\ UNCHANGED <<gvars, fvars, pvars, cvars>>

\* download_image lines 145-153: the chunks are written under the final name
PhotosBody(i) ==
  /\ variant = "photos"
  /\ task[i].pc = "body"
  /\ \E b \in {"complete", "broken", "oserror"} :
       /\ task' = [task EXCEPT ![i] =
            CASE b = "complete" -> Finish(task[i], "filepath")
              [] b = "broken" -> NextUrl([task[i] EXCEPT !.pc = "get"], i)
              [] OTHER -> Raise(task[i])]
       /\ fs' = IF b = "complete" THEN [fs EXCEPT ![Path(i)] = "full"] ELSE fs
  /\ UNCHANGED <<variant, records, candidates, max_workers, mpc, next, results, image_map>>
  /\ UNCHANGED <<gvars, fvars, pvars, cvars>>

\* process_scholar lines 181-184 with download_with_custom_dns lines 96-129
\* and 137-139 for DNS_SERVERS[idx]: resolve, GET the same url through the
\* resolved address, check status and content type, open(output_path, 'wb')
DnsGet(i) ==
  /\ variant = "dns"
  /\ task[i].pc = "get"
  /\ LET u == Rec(i).image_url
     IN \E outcome \in {"unresolved", "failed", "notimage", "image", "image_open_fails"} :
          LET t == [task[i] EXCEPT
                      !.netcall = TRUE,
                      !.rereq = @ \/ (outcome # "unresolved" /\ u \in task[i].vfail),
                      !.attempts = Append(@, <<u, DNS_SERVERS[task[i].idx]>>)]
          IN /\ task' = [task EXCEPT ![i] =
                  CASE outcome = "image" -> [t EXCEPT !.pc = "body"]
                    [] outcome = "notimage" -> NextStrategy([t EXCEPT !.vfail = @ \cup {u}])
                    [] OTHER -> NextStrategy(t)]
             /\ fs' = IF outcome = "image" THEN [fs EXCEPT ![Path(i)] = "partial"] ELSE fs
  /\ UNCHANGED <<variant, records, candidates, max_workers, mpc, next, results, image_map>>
  /\ UNCHANGED <<gvars, fvars, pvars, cvars>>

\* download_with_custom_dns lines 130-139, process_scholar lines 186-192
DnsBody(i) ==
  /\ variant = "dns"
  /\ task[i].pc = "body"
  /\ \E b \in {"complete", "broken", "oserror"} :
       /\ task' = [task EXCEPT ![i] =
            IF b = "complete" THEN Finish(task[i], DNS_SERVERS[task[i].idx])
            ELSE NextStrategy([task[i] EXCEPT !.pc = "get"])]
       /\ fs' = IF b = "complete" THEN [fs EXCEPT ![Path(i)] = "full"] ELSE fs
  /\ UNCHANGED <<variant, records, candidates, max_workers, mpc, next, results, image_map>>
  /\ UNCHANGED <<gvars, fvars, pvars, cvars>>

\* image_map[row['id']] = filepath
ImageMapPut(m, id, path) == {e \in m : e[1] # id} \cup {<<id, path>>}

\* a loop that takes the futures as they complete instead of as submitted
CollectAsCompleted ==
  /\ mpc = "collect"
  /\ \E j \in DOMAIN task :
       /\ Finished(j)
       /\ IF task[j].pc = "raised"
          THEN /\ mpc' = "unwinding"
               /\ UNCHANGED <<next, results, image_map>>
          ELSE /\ results' =
                    IF variant = "dns"
                    THEN Append(results, [scholar_id |-> Rec(j).id,
                                          name |-> Rec(j).name,
                                          success |-> task[j].val # "None",
                                          successful_dns |-> task[j].val])
                    ELSE results
               /\ image_map' =
                    IF variant = "photos" /\ task[j].val # "None"
                    THEN ImageMapPut(image_map, Rec(j).id, Path(j))
                    ELSE image_map
               /\ next' = next + 1
               /\ mpc' = IF next = NumRecords THEN "report" ELSE "collect"
  /\ UNCHANGED <<variant, records, candidates, max_workers, fs, task>>
  /\ UNCHANGED <<gvars, fvars, pvars, cvars>>

\* main's loop over the futures, in submission order: download_photos.py
\* lines 205-209, dns_resolver_download.py lines 225-230.  future.result()
\* re-raises what the worker raised.
Collect ==
  /\ mpc = "collect"
  /\ Finished(next)
  /\ IF task[next].pc = "raised"
     THEN /\ mpc' = "unwinding"
          /\ UNCHANGED <<next, results, image_map>>
     ELSE /\ results' =
               IF variant = "dns"
               THEN Append(results, [scholar_id |-> Rec(next).id,
                                     name |-> Rec(next).name,
                                     success |-> task[next].val # "None",
                                     successful_dns |-> task[next].val])
               ELSE results
          /\ image_map' =
               IF variant = "photos" /\ task[next].val # "None"
               THEN ImageMapPut(image_map, Rec(next).id, Path(next))
               ELSE image_map
          /\ next' = next + 1
          /\ mpc' = IF next = NumRecords THEN "report" ELSE "collect"
  /\ UNCHANGED <<variant, records, candidates, max_workers, fs, task>>
  /\ UNCHANGED <<gvars, fvars, pvars, cvars>>

\* the exception leaves the with block: shutdown(wait=True) lets every
\* submitted task finish, then main ends with the exception
Unwind ==
  /\ mpc = "unwinding"
  /\ \A i \in DOMAIN task : Finished(i)
  /\ mpc' = "aborted"
  /\ UNCHANGED <<variant, records, candidates, max_workers, fs, task, next, results, image_map>>
  /\ UNCHANGED <<gvars, fvars, pvars, cvars>>

\* download_photos.py lines 211-217, dns_resolver_download.py lines 232-250
Report ==
  /\ mpc = "report"
  /\ mpc' = "done"
  /\ UNCHANGED <<variant, records, candidates, max_workers, fs, task, next, results, image_map>>
  /\ UNCHANGED <<gvars, fvars, pvars, cvars>>

\* the script is run again on the same CSV and the same output directory
NewRun ==
  /\ mpc \in {"done", "aborted"}
  /\ \E h \in (IF variant = "photos" THEN 0..(MaxRunSeed - 1) ELSE {0}) :
       /\ hashseed' = h
       /\ candidates' = [i \in 1..NumRecords |-> UrlsOf(h, records[i])]
  /\ task' = [i \in 1..NumRecords |-> QueuedTask]
  /\ mpc' = "collect"
  /\ next' = 1
  /\ results' = <<>>
  /\ image_map' = {}
  /\ UNCHANGED <<variant, records, max_workers, fs>>
  /\ UNCHANGED <<gpc, url, scholar_id, year, alternatives, urls_to_try>>
  /\ UNCHANGED <<fvars, pvars, cvars>>

Next ==
  \/ \E i \in 1..NumRecords :
       StartTask(i) \/ PhotosGet(i) \/ PhotosBody(i) \/ DnsGet(i) \/ DnsBody(i)
  \/ Collect
  \/ Unwind
  \/ Report
  \/ NewRun

Spec == RunInit /\ [][Next]_vars

\* the steps of one run: everything but the start of another run
RunStep ==
  \/ \E i \in 1..NumRecords :
       StartTask(i) \/ PhotosGet(i) \/ PhotosBody(i) \/ DnsGet(i) \/ DnsBody(i)
  \/ Collect
  \/ Unwind
  \/ Report

\* one run of the script from its start: the pool's threads and the main
\* thread keep running, and every network operation returns (requests are
\* made with timeout=TIMEOUT)
SpecLive == RunInit /\ [][RunStep]_vars /\ WF_vars(RunStep)

Success(i) == task[i].pc = "returned" /\ task[i].val # "None"

(***************************************************************************)
(* C4: a record whose artifact file exists when it is processed yields a   *)
(* success outcome, and no resolution or HTTP request is issued for it.    *)
(***************************************************************************)
C4_ExistingArtifactSkipped ==
  \A i \in DOMAIN task :
    (task[i].pc # "queued" /\ task[i].existed) => (Success(i) /\ ~task[i].netcall)

(***************************************************************************)
(* C5: a file under a final artifact path always holds a complete,         *)
(* content-type-checked body: no partially written file is ever visible    *)
(* under the final name.                                                   *)
(***************************************************************************)
C5_NoPartialArtifact == \A p \in DOMAIN fs : fs[p] # "partial"

(***************************************************************************)
(* C6: whatever makes one record fail, no worker exception leaves main's   *)
(* collection loop, and every record's outcome is collected.               *)
(***************************************************************************)
C6_FaultIsolation ==
  /\ mpc \notin {"unwinding", "aborted"}
  /\ mpc \in {"report", "done"} => next = NumRecords + 1

(***************************************************************************)
(* C7 as claimed: at most max_workers records are in flight, and a         *)
(* completed run has collected exactly one outcome entry per input record  *)
(* (results in the dns variant, image_map in the photos variant).          *)
(***************************************************************************)
OutcomeCount == IF variant = "dns" THEN Len(results) ELSE Cardinality(image_map)

C8_BadTypeNotRequestedAgain == \A i \in DOMAIN task : ~task[i].rereq

\* the keys of the outcome a worker returns: the dict of process_scholar;
\* download_image returns a path or None, which has no fields
OutcomeFields ==
  IF variant = "dns" THEN {"scholar_id", "name", "success", "successful_dns"} ELSE {}

(***************************************************************************)
(* C11: a record with an empty canonical URL (and no artifact on disk)     *)
(* ends in a failure outcome that carries an error text ("no candidate     *)
(* URLs"), with no resolution or request issued and no exception raised.   *)
(***************************************************************************)
C11_EmptyUrlFailsWithError ==
  \A i \in DOMAIN task :
    (NoImageUrl(Rec(i)) /\ task[i].pc # "queued" /\ ~task[i].existed) =>
      /\ task[i].pc = "returned"
      /\ task[i].val = "None"
      /\ ~task[i].netcall
      /\ "error" \in OutcomeFields

\* the attempts of the ladder on u up to and including strategy number s
Ladder(u, s) == [k \in 1..s |-> <<u, DNS_SERVERS[k]>>]

StrategyIndex(dns_name) == CHOOSE k \in 1..Len(DNS_SERVERS) : DNS_SERVERS[k] = dns_name

(***************************************************************************)
(* C12: when process_scholar returns a strategy name S for a record with a *)
(* valid URL, every strategy before S was attempted and failed, S was the  *)
(* last attempt, the outcome is a success whose successful_dns is S, and   *)
(* the complete artifact is at OUTPUT_DIR/{id}_{sanitized name}.jpg (for   *)
(* id 42, name "Jane Doe": 42_Jane_Doe.jpg).                               *)
(***************************************************************************)
C12_FirstWorkingStrategyWins ==
  variant = "dns" =>
    \A i \in DOMAIN task :
      (task[i].pc = "returned" /\ task[i].val \in Range(DNS_SERVERS)) =>
        /\ task[i].attempts = Ladder(Rec(i).image_url, StrategyIndex(task[i].val))
        /\ fs[Path(i)] = "full"
        /\ Rec(i).id = <<"42">> =>
             Path(i) = <<"scholar_photos_dns", "/", "42", "_", "Jane", "_", "Doe", ".jpg">>
        /\ Rec(i).id = <<"43">> =>
             Path(i) = <<"scholar_photos_dns", "/", "43", "_", "A", "_", "Lee", ".jpg">>
        /\ i <= Len(results) =>
             /\ results[i].success
             /\ results[i].successful_dns = task[i].val
             /\ results[i].scholar_id = Rec(i).id

\* record 42: every named strategy failed, "Default DNS" succeeded, and main
\* has collected the outcome
C12_Witness ==
  /\ variant = "dns"
  /\ \E i \in DOMAIN task :
       /\ Rec(i).id = <<"42">>
       /\ task[i].pc = "returned"
       /\ task[i].val = "Default DNS"
       /\ Len(task[i].attempts) = Len(DNS_SERVERS)
       /\ i <= Len(results)

\* the interpreter's exit status: main returns normally (0) or ends with the
\* exception future.result() re-raised (1)
ExitStatus == IF mpc = "aborted" THEN 1 ELSE 0

(***************************************************************************)
(* C15: when a run has finished, the exit status is non-zero if and only   *)
(* if at least one record's outcome is a failure.                          *)
(***************************************************************************)
C15_ExitStatusReflectsFailures ==
  mpc \in {"done", "aborted"} =>
    (ExitStatus # 0 <=> \E i \in DOMAIN task : ~Success(i))

(***************************************************************************)
(* C16: in every run, also one that follows a run with an interrupted body *)
(* transfer, a record reported as successful (downloaded or skipped) has   *)
(* an artifact file with a complete, validated body.                       *)
(***************************************************************************)
C16_ReportedSuccessHasCompleteArtifact ==
  \A i \in DOMAIN task : Success(i) => fs[Path(i)] = "full"

IsPrefix(a, b) == Len(a) <= Len(b) /\ a = SubSeq(b, 1, Len(a))

\* every candidate URL of record i in generator order, each with every
\* strategy in ladder order
AttemptOrder(i) ==
  LET n == Len(DNS_SERVERS)
  IN [k \in 1..(Len(Urls(i)) * n) |->
        <<Urls(i)[((k - 1) \div n) + 1], DNS_SERVERS[((k - 1) % n) + 1]>>]

(***************************************************************************)
(* C17: the attempts of one record follow the order candidate URL by       *)
(* candidate URL, and for each URL strategy by strategy with Default last; *)
(* a record ends as failed only after every pair of that order failed.     *)
(***************************************************************************)
C17_UrlThenStrategyOrder ==
  \A i \in DOMAIN task :
    /\ IsPrefix(task[i].attempts, AttemptOrder(i))
    /\ (task[i].pc = "returned" /\ task[i].val = "None" /\ ~task[i].existed) =>
         task[i].attempts = AttemptOrder(i)

(***************************************************************************)
(* C18: a record has at most one attempt under way, every earlier attempt  *)
(* being over, and no attempt is under way or still to come for a record   *)
(* whose attempt has completed with a validated body: the first success    *)
(* ends the record's attempts.                                             *)
(***************************************************************************)
C18_SequentialFirstSuccessWins ==
  \A i \in DOMAIN task :
    /\ task[i].pc \in {"get", "body"} => fs[Path(i)] # "full"
    /\ task[i].pc = "body" => Len(task[i].attempts) = task[i].idx
    /\ task[i].pc = "get" => Len(task[i].attempts) = task[i].idx - 1
    /\ (Success(i) /\ ~task[i].existed) => task[i].attempts # <<>>

\* a record that succeeded on its first attempt with candidates left untried
C18_Witness ==
  \E i \in DOMAIN task :
    /\ Success(i)
    /\ ~task[i].existed
    /\ Len(task[i].attempts) = 1
    /\ fs[Path(i)] = "full"
    /\ Len(task[i].attempts) <
         (IF variant = "photos" THEN Len(Urls(i)) ELSE Len(DNS_SERVERS))

(***************************************************************************)
(* C20: the artifact-existence check comes before the URL is examined: a   *)
(* record whose artifact exists when it is processed ends as skipped       *)
(* (success) without any attempt, and a record ends as failed (EXHAUSTED)  *)
(* only when no artifact existed.                                          *)
(***************************************************************************)
C20_ExistenceCheckedFirst ==
  \A i \in DOMAIN task :
    task[i].pc # "queued" =>
      /\ task[i].existed =>
           /\ task[i].pc = "returned"
           /\ task[i].val \in {"filepath", "Already downloaded"}
           /\ task[i].attempts = <<>>
      /\ (task[i].pc = "returned" /\ task[i].val = "None") => ~task[i].existed

\* the number of outcomes record i has in the run's collection: its entries
\* in results (dns); in the photos variant its future consumed by main's
\* loop, whose value becomes an image_map entry or a deliberate absence
OutcomesOf(i) ==
  IF variant = "dns"
  THEN Cardinality({k \in 1..Len(results) : results[k].scholar_id = Rec(i).id})
  ELSE IF i < next THEN 1 ELSE 0

(***************************************************************************)
(* C21: when a run has ended, every input record has reached a terminal    *)
(* state by returning an outcome, and has exactly one outcome in the run's *)
(* collection.                                                             *)
(***************************************************************************)
C21_OneOutcomePerRecord ==
  mpc \in {"done", "aborted"} =>
    \A i \in DOMAIN task : task[i].pc = "returned" /\ OutcomesOf(i) = 1

\* the report files are written after the with block only:
\* create_airtable_csv (download_photos.py line 212), result_df.to_csv
\* (dns_resolver_download.py lines 248-249)
ReportPersisted == mpc = "done"

(***************************************************************************)
(* C23: when a run is aborted by an exception leaving the collection loop, *)
(* the outcomes of the completed records are in the persisted report and   *)
(* no in-progress file is left behind.                                     *)
(***************************************************************************)
C23_AbortKeepsOutcomes ==
  mpc = "aborted" =>
    /\ ReportPersisted
    /\ \A p \in DOMAIN fs : fs[p] # "partial"

\* dns_resolver_download.py line 235
DnsStatistics(dns_name) ==
  Cardinality({k \in 1..Len(results) : results[k].successful_dns = dns_name})

\* lines 229-230
SuccessfulDownloads == Cardinality({k \in 1..Len(results) : results[k].success})

RECURSIVE StatisticsSum(_)
\* the sum of dns_statistics over the first n strategies
StatisticsSum(n) ==
  IF n = 0 THEN 0 ELSE DnsStatistics(DNS_SERVERS[n]) + StatisticsSum(n - 1)

(***************************************************************************)
(* C24: in the report of the dns variant the per-strategy success counts   *)
(* add up to the number of successful records, skipped ones included.      *)
(***************************************************************************)
C24_StatisticsSumToSuccesses ==
  (variant = "dns" /\ mpc = "done") =>
    StatisticsSum(Len(DNS_SERVERS)) = SuccessfulDownloads

\* a step in which no worker is involved in a change of the collection: the
\* collection changes only when main's loop takes the next future, or when
\* a new run starts with an empty one
OnlyCollectorWrites ==
  (results' # results \/ image_map' # image_map) =>
    \/ mpc = "collect" /\ next' = next + 1 /\ task' = task
    \/ mpc \in {"done", "aborted"} /\ results' = <<>> /\ image_map' = {}

\* what main has collected so far is the outcomes of the first next - 1
\* records, in input order
CollectedInInputOrder ==
  /\ variant = "dns" =>
       /\ Len(results) = next - 1
       /\ \A k \in 1..Len(results) :
            results[k] = [scholar_id |-> Rec(k).id, name |-> Rec(k).name,
                          success |-> task[k].val # "None",
                          successful_dns |-> task[k].val]
  /\ variant = "photos" =>
       image_map = {<<Rec(k).id, Path(k)>> : k \in {j \in 1..(next - 1) : Success(j)}}

(***************************************************************************)
(* C28: only main's loop over the futures changes results / image_map, and *)
(* the collection always holds the outcomes of a prefix of the input       *)
(* records in input order, whatever order the workers finish in.           *)
(***************************************************************************)
C28_CollectorOwnsOutcomes == []CollectedInInputOrder /\ [][OnlyCollectorWrites]_vars

\* the second record has finished while the first is still under way and
\* main waits for the first
C28_Witness ==
  /\ NumRecords >= 2
  /\ mpc = "collect"
  /\ next = 1
  /\ task[1].pc \in {"get", "body"}
  /\ task[2].pc = "returned"
  /\ task[2].val # "None"

(***************************************************************************)
(* C30: a record whose outcome is a success has a file at its final path,  *)
(* and a record whose outcome is a failure has no file under its final     *)
(* path.                                                                   *)
(***************************************************************************)
C30_FileIffSuccess ==
  \A i \in DOMAIN task :
    task[i].pc = "returned" =>
      /\ Success(i) => fs[Path(i)] # "none"
      /\ task[i].val = "None" => fs[Path(i)] = "none"

\* pd.read_csv: the dtype of a column, inferred from the text of its cells
IsIntegerText(c) == Len(c) = 1 /\ c[1] \in {"42", "43", "7", "8", "2022"}

ColumnDtype(cells) ==
  IF \A c \in cells : IsIntegerText(c) THEN "int64"
  ELSE IF \A c \in cells : IsIntegerText(c) \/ c = <<>> THEN "float64"
  ELSE "object"

\* df.to_csv of a cell that was read under the given dtype: an integer in a
\* column with missing cells comes back as a float, a missing cell as empty
CsvRoundTrip(c, dtype) == IF dtype = "float64" /\ c # <<>> THEN c \o <<".0">> ELSE c

\* an image_map lookup that ignores the id
ImageMapGetAny(m, id) == IF m = {} THEN <<>> ELSE (CHOOSE e \in m : TRUE)[2]

\* image_map.get(row['id'], '')
ImageMapGet(m, id) ==
  IF \E e \in m : e[1] = id THEN (CHOOSE e \in m : e[1] = id)[2] ELSE <<>>

\* create_airtable_csv lines 161-170: the input CSV read again, two columns
\* added, written out
CreateAirtableCsv(recs, m) ==
  LET column(f) == {recs[k][f] : k \in DOMAIN recs}
  IN [k \in DOMAIN recs |->
        LET local_image_path == ImageMapGet(m, recs[k].id)
        IN [id |-> CsvRoundTrip(recs[k].id, ColumnDtype(column("id"))),
            name |-> CsvRoundTrip(recs[k].name, ColumnDtype(column("name"))),
            image_url |-> CsvRoundTrip(recs[k].image_url, ColumnDtype(column("image_url"))),
            year |-> CsvRoundTrip(recs[k].year, ColumnDtype(column("year"))),
            local_image_path |-> local_image_path,
            image_downloaded |-> IF local_image_path # <<>> THEN "Yes" ELSE "No"]]

AttemptBound(i) == IF variant = "photos" THEN Len(Urls(i)) ELSE Len(DNS_SERVERS)

\* 1 canonical URL, 3 re-rooted ones, 3 patterns for each of the 3 bases
MaxCandidates == 1 + Len(ALTERNATIVE_BASE_URLS) + 3 * Len(ALTERNATIVE_BASE_URLS)

\* the run has ended, every worker has ended, and no record has made more
\* attempts than its bound (attempts are never taken back, so the bound held
\* all along)
RunEndedWithinBounds ==
  /\ mpc \in {"done", "aborted"}
  /\ MaxCandidates = 13
  /\ \A i \in DOMAIN task :
       /\ Finished(i)
       /\ Len(Urls(i)) <= MaxCandidates
       /\ Len(task[i].attempts) <= AttemptBound(i)
       /\ NoDup(task[i].attempts)

=============================================================================
